---- MODULE Spec2Model ----
(***************************************************************************)
(* HeyChatting: the in-memory room registry (ChatManager), its event bus   *)
(* (an rxjs Subject with filtered derived streams) and the socket adapter  *)
(* (SocketHandler) that drives the registry per connection.                *)
(*                                                                         *)
(* Text that the code inspects character by character (user names and      *)
(* message contents: template strings, trim) is a sequence of one-character*)
(* strings.  Room ids, room names, enum members and error texts are opaque *)
(* and stay TLA+ strings.  Date values (createdAt, joinedAt, timestamp) are *)
(* not modelled: no operation of the registry reads them.                  *)
(***************************************************************************)
EXTENDS Integers, Sequences, FiniteSets, TLC

(***************************************************************************)
(* Bounds of the model.                                                    *)
(***************************************************************************)
\* how many values uuidv4() hands out in one behaviour of Spec
MaxUuid == 3
\* how many values uuidv4() hands out in one behaviour of BusSpec
MaxBusUuid == 3
\* how many requests the connections make in one behaviour of SocketSpec
MaxRequests == 4
\* the largest limit a reader passes to getRoomMessages
MaxLimit == 4
\* the longest content written to a MessageTransform from outside the registry
MaxContentLen == 3
\* how many messages are written to a MessageTransform in one behaviour
MaxApplied == 2
\* how many values uuidv4() hands out in one behaviour of HistorySpec
MaxHistoryUuid == 2
\* how many values uuidv4() hands out in one behaviour of StallSpec
MaxStallUuid == 2
\* how many minutes the clock advances in one behaviour of ActivitySpec
MaxNow == 6
\* how many requests the HTTP adapter answers in one behaviour of HttpSpec
MaxHttpRequests == 3
\* how many values uuidv4() hands out in one behaviour of HttpSpec
MaxHttpUuid == 2
\* the longest array a MessageHistoryStream is constructed over
MaxHistoryLen == 3
\* how many values uuidv4() hands out in one behaviour of ReentrantSpec
MaxReentrantUuid == 3
\* how many registry calls are in progress at once, one inside the other
MaxDepth == 2
\* how many values uuidv4() hands out in one behaviour of ReadSpec
MaxReadUuid == 2

(***************************************************************************)
(* Inputs.                                                                 *)
(***************************************************************************)
RoomIds == {"general", "r1"}
\* createRoom's inputs: a second room, and the default room's id again
RoomInputs == { <<"general", "Lobby">>, <<"r1", "Room 1">> }

\* two user values share the id u1 (a re-join overwrites the record), two
\* share the name "a" (distinct users with the same display name)
Users ==
  { [id |-> "u1", username |-> <<"a">>],
    [id |-> "u1", username |-> <<"b">>],
    [id |-> "u2", username |-> <<"a">>] }
UserIds == {"u1", "u2"}

\* raw content that trimming and escaping would both change
Contents == { <<" ", "<", "b", ">">> }

\* the subscribers of the event stream
SubIds == {"s1", "s2"}
\* the one that subscribes in BusSpec
BusSubIds == {"s1"}
\* the subscribers whose callback may take arbitrarily long or never return
SlowSubs == {"s1"}

\* the connections, and what they send in SocketSpec
Conns == {"c1", "c2"}
Usernames == { <<" ", "a">> }
SentContents == { <<"h", "i", " ">>, <<" ">> }
\* the bodies of the create-room requests: a new room, the default room's id
\* again, a body without a name, a body without an id
HttpRoomInputs ==
  { <<"r1", "Room 1">>, <<"general", "Lobby">>, <<"r1", "<undefined>">>,
    <<"<undefined>", "Room 1">> }

\* the inputs of createRoom and joinRoom in BusSpec
BusRoomInputs == { <<"r1", "Room 1">> }
BusUsers == { [id |-> "u1", username |-> <<"a">>], [id |-> "u2", username |-> <<"b">>] }

(***************************************************************************)
(* types/index: the enums.                                                 *)
(***************************************************************************)
TEXT == "text"
USER_JOINED == "user_joined"
USER_LEFT == "user_left"

MESSAGE_SENT == "message_sent"
ROOM_JOINED == "room_joined"
ROOM_LEFT == "room_left"

SystemUserId == "system"
SystemUsername == <<"S", "y", "s", "t", "e", "m">>
JoinedSuffix ==
  <<" ", "j", "o", "i", "n", "e", "d", " ", "t", "h", "e", " ", "r", "o", "o", "m">>
LeftSuffix ==
  <<" ", "l", "e", "f", "t", " ", "t", "h", "e", " ", "r", "o", "o", "m">>

(***************************************************************************)
(* State.                                                                  *)
(***************************************************************************)
VARIABLES
  rooms,         \* ChatManager.rooms: room id -> Room (the Map's entries)
  roomKeys,      \* ChatManager.rooms: the Map's keys in insertion order
  roomSubjects,  \* ChatManager.roomSubjects: room id -> the value last passed to next
  emitted,       \* every event passed to eventStream.next, in order
  subs,          \* subscriber -> its subscription to eventStream and what it received
  uuid,          \* number of values uuidv4() has handed out
  seen,          \* what the subscriber callbacks run by the last call were shown
  lastOp,        \* the last call made on the registry, and what it returned
  sockets,       \* connection -> its socket: data, transport rooms, what it was sent
  requests,      \* number of requests the connections have made
  httpRes,       \* the last response of the HTTP adapter
  transform,     \* a MessageTransform: what was written to it and what it pushed
  delivery,      \* the eventStream.next in progress and its observers in order
  tracker,       \* a UserActivityTransform, with the clock it reads
  reader,        \* a MessageHistoryStream and what its consumer was handed
  stack          \* the registry calls in progress, the innermost last

cmVars == <<rooms, roomKeys, roomSubjects, emitted, subs, uuid, seen, lastOp>>
vars == <<rooms, roomKeys, roomSubjects, emitted, subs, uuid, seen, lastOp,
          sockets, requests, httpRes, transform, delivery, tracker, reader,
          stack>>

\* the streams that stand apart from the registry
streamVars == <<tracker, reader, stack>>

(***************************************************************************)
(* A JavaScript Map<string, User> keyed by user.id: entries in insertion   *)
(* order; set on a present key replaces the value in place.                *)
(***************************************************************************)
MapHas(m, k) == \E i \in 1..Len(m) : m[i].id = k

MapGet(m, k) == m[CHOOSE i \in 1..Len(m) : m[i].id = k]

\* (variant: the value is appended whether or not the key is present)
MapSetM(m, v) == Append(m, v)

MapSet(m, v) ==
  IF MapHas(m, v.id)
    THEN [i \in 1..Len(m) |-> IF m[i].id = v.id THEN v ELSE m[i]]
    ELSE Append(m, v)

\* (variant: the entry is not removed)
MapDeleteM(m, k) == m

MapDelete(m, k) == SelectSeq(m, LAMBDA u : u.id # k)

MapValues(m) == m

(***************************************************************************)
(* uuidv4(): a value never handed out before.                              *)
(***************************************************************************)
Uuid(n) == "uuid-" \o ToString(n)

\* a subscriber that has not subscribed
NoSub ==
  [active |-> FALSE, kind |-> "all", roomId |-> "general", since |-> 0,
   received |-> <<>>]

(***************************************************************************)
(* The ChatManager object as one value, so that a method is a function of  *)
(* it.  seen collects what subscriber callbacks are shown while the method *)
(* runs.                                                                   *)
(***************************************************************************)
CM ==
  [rooms |-> rooms, roomKeys |-> roomKeys, roomSubjects |-> roomSubjects,
   emitted |-> emitted, subs |-> subs, uuid |-> uuid, seen |-> <<>>]

EmptyCM ==
  [rooms |-> <<>>, roomKeys |-> <<>>, roomSubjects |-> <<>>,
   emitted |-> <<>>, subs |-> [s \in SubIds |-> NoSub], uuid |-> 0,
   seen |-> <<>>]

\* this.rooms.set(id, room)
RoomsSet(cm, id, room) ==
  [cm EXCEPT !.rooms = (id :> room) @@ cm.rooms,
             !.roomKeys = IF id \in DOMAIN cm.rooms THEN @ ELSE Append(@, id)]

\* one subscription of the event stream taking an event: the filter and map
\* stages of getEventStream / getRoomEventStream / getMessageStream
\* (variant: the room's event stream does not filter by room)
DeliverUnfiltered(sub, event) ==
  IF ~sub.active THEN sub
  ELSE IF sub.kind \in {"all", "room"}
    THEN [sub EXCEPT !.received = Append(@, event)]
  ELSE IF event.type = MESSAGE_SENT /\ event.payload.roomId = sub.roomId
    THEN [sub EXCEPT !.received = Append(@, event.payload.message)]
    ELSE sub

\* (variant: the message stream does not filter by room)
DeliverM(sub, event) ==
  IF ~sub.active THEN sub
  ELSE IF sub.kind = "all" THEN [sub EXCEPT !.received = Append(@, event)]
  ELSE IF sub.kind = "room"
    THEN IF event.payload.roomId = sub.roomId
           THEN [sub EXCEPT !.received = Append(@, event)]
           ELSE sub
  ELSE IF event.type = MESSAGE_SENT
    THEN [sub EXCEPT !.received = Append(@, event.payload.message)]
    ELSE sub

Deliver(sub, event) ==
  IF ~sub.active THEN sub
  ELSE IF sub.kind = "all" THEN [sub EXCEPT !.received = Append(@, event)]
  ELSE IF sub.kind = "room"
    THEN IF event.payload.roomId = sub.roomId
           THEN [sub EXCEPT !.received = Append(@, event)]
           ELSE sub
  ELSE IF event.type = MESSAGE_SENT /\ event.payload.roomId = sub.roomId
    THEN [sub EXCEPT !.received = Append(@, event.payload.message)]
    ELSE sub

\* (variant: the event is handed to every subscriber twice)
EmitEventM(cm, event) ==
  [cm EXCEPT
     !.emitted = Append(@, event),
     !.subs = [s \in DOMAIN cm.subs |-> Deliver(Deliver(cm.subs[s], event), event)],
     !.seen = Append(@, [via |-> "eventStream", type |-> event.type,
                         roomId |-> event.payload.roomId,
                         room |-> cm.rooms[event.payload.roomId]])]

\* emitEvent: eventStream.next(event) calls every subscriber synchronously
EmitEvent(cm, event) ==
  [cm EXCEPT
     !.emitted = Append(@, event),
     !.subs = [s \in DOMAIN cm.subs |-> Deliver(cm.subs[s], event)],
     !.seen = Append(@, [via |-> "eventStream", type |-> event.type,
                         roomId |-> event.payload.roomId,
                         room |-> cm.rooms[event.payload.roomId]])]

\* updateRoom: rooms.set(room.id, room), then subject.next(room) calls every
\* subscriber of the room stream synchronously
UpdateRoom(cm, roomId) ==
  LET room == cm.rooms[roomId]
      c1 == RoomsSet(cm, roomId, room)
  IN  IF roomId \in DOMAIN c1.roomSubjects
        THEN [c1 EXCEPT
                !.roomSubjects[roomId] = room,
                !.seen = Append(@, [via |-> "roomStream", type |-> "next",
                                    roomId |-> roomId, room |-> room])]
        ELSE c1

\* (variant: id and name are taken in the other order)
NewRoomM(id, name) == [id |-> name, name |-> id, users |-> <<>>, messages |-> <<>>]

NewRoom(id, name) == [id |-> id, name |-> name, users |-> <<>>, messages |-> <<>>]

\* createRoom(id, name): Room
createRoom(cm, id, name) ==
  LET room == NewRoom(id, name)
      c1 == RoomsSet(cm, id, room)
      c2 == [c1 EXCEPT !.roomSubjects = (id :> room) @@ c1.roomSubjects]
  IN  [cm |-> c2, result |-> room, threw |-> "nothing"]

\* getRoom(roomId): Room | undefined, as a sequence of at most one room
getRoom(cm, roomId) ==
  IF roomId \in DOMAIN cm.rooms THEN <<cm.rooms[roomId]>> ELSE <<>>

\* getAllRooms(): Room[]
getAllRooms(cm) == [i \in 1..Len(cm.roomKeys) |-> cm.rooms[cm.roomKeys[i]]]

\* (variant: the join message is worded like the leave message)
JoinMessageM(cm, user) ==
  [id |-> Uuid(cm.uuid + 1), userId |-> SystemUserId, username |-> SystemUsername,
   content |-> user.username \o LeftSuffix, type |-> USER_JOINED]

JoinMessage(cm, user) ==
  [id |-> Uuid(cm.uuid + 1), userId |-> SystemUserId, username |-> SystemUsername,
   content |-> user.username \o JoinedSuffix, type |-> USER_JOINED]

LeaveMessage(cm, user) ==
  [id |-> Uuid(cm.uuid + 1), userId |-> SystemUserId, username |-> SystemUsername,
   content |-> user.username \o LeftSuffix, type |-> USER_LEFT]

\* (variant: angle brackets are stripped from the content that is stored)
TextMessageM(cm, userId, user, content) ==
  [id |-> Uuid(cm.uuid + 1), userId |-> userId, username |-> user.username,
   content |-> SelectSeq(content, LAMBDA ch : ch \notin {"<", ">"}), type |-> TEXT]

TextMessage(cm, userId, user, content) ==
  [id |-> Uuid(cm.uuid + 1), userId |-> userId, username |-> user.username,
   content |-> content, type |-> TEXT]

\* (variant: the message is pushed onto the history of every room)
PushAll(cm, roomId, message) ==
  [cm EXCEPT !.rooms = [r \in DOMAIN cm.rooms |->
                          [cm.rooms[r] EXCEPT !.messages = Append(@, message)]],
             !.uuid = @ + 1]

\* (variant: unshift instead of push)
PushM(cm, roomId, message) ==
  [cm EXCEPT !.rooms[roomId].messages = <<message>> \o @, !.uuid = @ + 1]

\* room.messages.push(message), the message's id being a fresh uuid
Push(cm, roomId, message) ==
  [cm EXCEPT !.rooms[roomId].messages = Append(@, message), !.uuid = @ + 1]

\* (variant: joining a room that does not exist creates it)
addUserToRoomCreating(cm, roomId, user) ==
  LET c0 == IF roomId \in DOMAIN cm.rooms THEN cm
            ELSE createRoom(cm, roomId, roomId).cm
      c1 == [c0 EXCEPT !.rooms[roomId].users = MapSet(@, user)]
      c2 == Push(c1, roomId, JoinMessage(c1, user))
      c3 == UpdateRoom(c2, roomId)
      c4 == EmitEvent(c3, [type |-> ROOM_JOINED,
                           payload |-> [roomId |-> roomId, user |-> user]])
  IN  [cm |-> c4, result |-> TRUE]

\* (variant: updateRoom is called before the join message is pushed)
addUserToRoomM(cm, roomId, user) ==
  IF roomId \notin DOMAIN cm.rooms THEN [cm |-> cm, result |-> FALSE]
  ELSE
    LET c1 == [cm EXCEPT !.rooms[roomId].users = MapSet(@, user)]
        c2 == UpdateRoom(c1, roomId)
        c3 == Push(c2, roomId, JoinMessage(c2, user))
        c4 == EmitEvent(c3, [type |-> ROOM_JOINED,
                             payload |-> [roomId |-> roomId, user |-> user]])
    IN  [cm |-> c4, result |-> TRUE]

\* addUserToRoom(roomId, user): boolean
addUserToRoom(cm, roomId, user) ==
  IF roomId \notin DOMAIN cm.rooms THEN [cm |-> cm, result |-> FALSE]
  ELSE
    LET c1 == [cm EXCEPT !.rooms[roomId].users = MapSet(@, user)]
        c2 == Push(c1, roomId, JoinMessage(c1, user))
        c3 == UpdateRoom(c2, roomId)
        c4 == EmitEvent(c3, [type |-> ROOM_JOINED,
                             payload |-> [roomId |-> roomId, user |-> user]])
    IN  [cm |-> c4, result |-> TRUE]

\* (variant: a user who is not a member is announced as leaving all the same)
removeUserFromRoomM(cm, roomId, userId) ==
  IF roomId \notin DOMAIN cm.rooms THEN [cm |-> cm, result |-> FALSE]
  ELSE
    LET user == IF MapHas(cm.rooms[roomId].users, userId)
                  THEN MapGet(cm.rooms[roomId].users, userId)
                  ELSE [id |-> userId, username |-> <<>>]
        c1 == [cm EXCEPT !.rooms[roomId].users = MapDelete(@, userId)]
        c2 == Push(c1, roomId, LeaveMessage(c1, user))
        c3 == UpdateRoom(c2, roomId)
        c4 == EmitEvent(c3, [type |-> ROOM_LEFT,
                             payload |-> [roomId |-> roomId, user |-> user]])
    IN  [cm |-> c4, result |-> TRUE]

\* removeUserFromRoom(roomId, userId): boolean
removeUserFromRoom(cm, roomId, userId) ==
  IF roomId \notin DOMAIN cm.rooms THEN [cm |-> cm, result |-> FALSE]
  ELSE IF ~MapHas(cm.rooms[roomId].users, userId) THEN [cm |-> cm, result |-> FALSE]
  ELSE
    LET user == MapGet(cm.rooms[roomId].users, userId)
        c1 == [cm EXCEPT !.rooms[roomId].users = MapDelete(@, userId)]
        c2 == Push(c1, roomId, LeaveMessage(c1, user))
        c3 == UpdateRoom(c2, roomId)
        c4 == EmitEvent(c3, [type |-> ROOM_LEFT,
                             payload |-> [roomId |-> roomId, user |-> user]])
    IN  [cm |-> c4, result |-> TRUE]

\* (variant: the sender is not required to be a member)
addMessageM(cm, roomId, userId, content) ==
  IF roomId \notin DOMAIN cm.rooms THEN [cm |-> cm, result |-> <<>>]
  ELSE
    LET user == IF MapHas(cm.rooms[roomId].users, userId)
                  THEN MapGet(cm.rooms[roomId].users, userId)
                  ELSE [id |-> userId, username |-> <<>>]
        message == TextMessage(cm, userId, user, content)
        c2 == Push(cm, roomId, message)
        c3 == UpdateRoom(c2, roomId)
        c4 == EmitEvent(c3, [type |-> MESSAGE_SENT,
                             payload |-> [roomId |-> roomId, message |-> message]])
    IN  [cm |-> c4, result |-> <<message>>]

\* addMessage(roomId, userId, content): Message | null, as a sequence of at
\* most one message
addMessage(cm, roomId, userId, content) ==
  IF roomId \notin DOMAIN cm.rooms THEN [cm |-> cm, result |-> <<>>]
  ELSE IF ~MapHas(cm.rooms[roomId].users, userId) THEN [cm |-> cm, result |-> <<>>]
  ELSE
    LET user == MapGet(cm.rooms[roomId].users, userId)
        message == TextMessage(cm, userId, user, content)
        c2 == Push(cm, roomId, message)
        c3 == UpdateRoom(c2, roomId)
        c4 == EmitEvent(c3, [type |-> MESSAGE_SENT,
                             payload |-> [roomId |-> roomId, message |-> message]])
    IN  [cm |-> c4, result |-> <<message>>]

\* Array.prototype.slice(-n) for n > 0: the last min(n, length) elements
SliceLast(s, n) ==
  IF n >= Len(s) THEN s ELSE SubSeq(s, Len(s) - n + 1, Len(s))

\* getRoomMessages(roomId, limit?): Message[]; the optional limit is a
\* sequence of at most one number, <<>> when the argument is left out.  The
\* code tests the limit for truthiness, so 0 is taken like no limit.
getRoomMessages(cm, roomId, limit) ==
  IF roomId \notin DOMAIN cm.rooms THEN <<>>
  ELSE IF limit # <<>> /\ limit[1] # 0
    THEN SliceLast(cm.rooms[roomId].messages, limit[1])
  ELSE cm.rooms[roomId].messages

\* getRoomUsers(roomId): User[]
getRoomUsers(cm, roomId) ==
  IF roomId \notin DOMAIN cm.rooms THEN <<>>
  ELSE MapValues(cm.rooms[roomId].users)

(***************************************************************************)
(* A connection's socket.  data is socket.data (SocketData, every field    *)
(* undefined at first), rooms the transport rooms the socket is in, inbox  *)
(* the notifications emitted to it.  Three fields record the connection's  *)
(* past for the properties (the code keeps none of them): created, the ids *)
(* of the users handleJoinRoom made for it; joined, the rooms it joined    *)
(* with success and has not asked to leave since; last, the request        *)
(* handled last for it and how many were handled.                          *)
(***************************************************************************)
Undefined == "<undefined>"

\* JavaScript truthiness of a string or undefined
Truthy(x) == x # Undefined /\ x # ""

NoSocket ==
  [state |-> "none",
   data |-> [userId |-> Undefined, username |-> <<>>, roomId |-> Undefined],
   rooms |-> {}, inbox |-> <<>>, created |-> {}, joined |-> {},
   last |-> [n |-> 0, event |-> "connection", roomId |-> Undefined]]

(***************************************************************************)
(* A MessageTransform that nothing was written to yet: written and pushed  *)
(* are sequences of at most one message, the last one written and what    *)
(* the stream pushed for it; from says where the written message was taken *)
(* from and applied counts the writes.                                     *)
(***************************************************************************)
NoTransform ==
  [written |-> <<>>, pushed |-> <<>>, from |-> "nowhere", applied |-> 0]

(***************************************************************************)
(* The event stream with no next in progress: observers are the           *)
(* subscribers in the order they subscribed, event the event being handed  *)
(* out (a sequence of at most one), pending the observers not called yet,  *)
(* running the observer whose callback has not returned yet and call the   *)
(* registry call that waits for the next to return.                        *)
(***************************************************************************)
NoDelivery ==
  [observers |-> <<>>, event |-> <<>>, pending |-> <<>>, running |-> <<>>,
   call |-> <<>>]

(***************************************************************************)
(* A UserActivityTransform that nothing was written to yet.  userActivity  *)
(* is the Map<string, Date> as the sequence of its entries [id, at]; now   *)
(* is the clock that new Date() and Date.now() read, in minutes; pushed    *)
(* and returned are sequences of at most one value, what the stream pushed *)
(* last and what getActiveUsers returned last; last names the last call.   *)
(***************************************************************************)
NoTracker ==
  [userActivity |-> <<>>, now |-> 0, pushed |-> <<>>, returned |-> <<>>,
   last |-> "constructor"]

(***************************************************************************)
(* No MessageHistoryStream constructed yet.  messages and currentIndex are *)
(* the object's fields (currentIndex counts from 0), data the messages     *)
(* handed to the consumer, ended whether it was told the end, state where  *)
(* the stream is.                                                          *)
(***************************************************************************)
NoReader ==
  [state |-> "none", messages |-> <<>>, currentIndex |-> 0, data |-> <<>>,
   ended |-> FALSE]

(***************************************************************************)
(* No registry call in progress.  frames are the calls that have not      *)
(* returned, the innermost last: a call made by a subscriber's callback    *)
(* runs inside the call that called the subscriber.  Two fields record the *)
(* past for the properties: published, the ids of the messages whose       *)
(* events were passed to eventStream.next, in that order; nested, the     *)
(* kinds of callback that made a call.                                     *)
(***************************************************************************)
NoStack == [frames |-> <<>>, published |-> <<>>, nested |-> {}]

(***************************************************************************)
(* No request answered by the HTTP adapter yet.  status and body are the   *)
(* last response, req the body of the request it answers and n the number  *)
(* of requests answered.                                                   *)
(***************************************************************************)
NoResponse == [status |-> 0, body |-> <<>>, req |-> <<>>, n |-> 0]

(***************************************************************************)
(* The registry's calls as actions.                                        *)
(***************************************************************************)
Commit(cm) ==
  /\ rooms' = cm.rooms
  /\ roomKeys' = cm.roomKeys
  /\ roomSubjects' = cm.roomSubjects
  /\ emitted' = cm.emitted
  /\ subs' = cm.subs
  /\ uuid' = cm.uuid
  /\ seen' = cm.seen

Init ==
  LET cm == createRoom(EmptyCM, "general", "General Chat").cm
  IN  /\ rooms = cm.rooms
      /\ roomKeys = cm.roomKeys
      /\ roomSubjects = cm.roomSubjects
      /\ emitted = cm.emitted
      /\ subs = cm.subs
      /\ uuid = cm.uuid
      /\ seen = cm.seen
      /\ lastOp = [op |-> "constructor", roomId |-> "general", arg |-> <<>>,
                   result |-> TRUE]
      /\ sockets = [c \in Conns |-> NoSocket]
      /\ requests = 0
      /\ httpRes = NoResponse
      /\ transform = NoTransform
      /\ delivery = NoDelivery
      /\ tracker = NoTracker
      /\ reader = NoReader
      /\ stack = NoStack

CreateRoomOf(inputs) ==
  \E in \in inputs :
    LET id == in[1]
        name == in[2]
        r == createRoom(CM, id, name)
    IN  /\ Commit(r.cm)
        /\ lastOp' = [op |-> "createRoom", roomId |-> id, arg |-> name,
                      result |-> [threw |-> r.threw, room |-> r.result]]
        /\ UNCHANGED <<sockets, requests, httpRes, transform,
                      delivery, streamVars>>

CreateRoom == CreateRoomOf(RoomInputs)

JoinRoomOf(users) ==
  \E roomId \in RoomIds, user \in users :
    LET r == addUserToRoom(CM, roomId, user)
    IN  /\ Commit(r.cm)
        /\ lastOp' = [op |-> "addUserToRoom", roomId |-> roomId, arg |-> user,
                      result |-> r.result]
        /\ UNCHANGED <<sockets, requests, httpRes, transform,
                      delivery, streamVars>>

JoinRoom == JoinRoomOf(Users)

LeaveRoom ==
  \E roomId \in RoomIds, userId \in UserIds :
    LET r == removeUserFromRoom(CM, roomId, userId)
    IN  /\ Commit(r.cm)
        /\ lastOp' = [op |-> "removeUserFromRoom", roomId |-> roomId,
                      arg |-> userId, result |-> r.result]
        /\ UNCHANGED <<sockets, requests, httpRes, transform,
                      delivery, streamVars>>

PostMessage ==
  \E roomId \in RoomIds, userId \in UserIds, content \in Contents :
    LET r == addMessage(CM, roomId, userId, content)
    IN  /\ Commit(r.cm)
        /\ lastOp' = [op |-> "addMessage", roomId |-> roomId,
                      arg |-> [userId |-> userId, content |-> content],
                      result |-> r.result]
        /\ UNCHANGED <<sockets, requests, httpRes, transform,
                      delivery, streamVars>>

\* (variant: the stream replays the events emitted so far to a new subscriber)
NewSubM(kind, roomId) ==
  [active |-> TRUE, kind |-> kind, roomId |-> roomId, since |-> Len(emitted),
   received |-> emitted]

\* subscribing to getEventStream(), getRoomEventStream(roomId) or
\* getMessageStream(roomId): a Subject replays nothing to a new subscriber
NewSub(kind, roomId) ==
  [active |-> TRUE, kind |-> kind, roomId |-> roomId, since |-> Len(emitted),
   received |-> <<>>]

Subscribe ==
  /\ \E s \in BusSubIds, kind \in {"all", "room", "messages"}, roomId \in RoomIds :
       /\ ~subs[s].active
       /\ kind = "all" => roomId = "general"
       /\ subs' = [subs EXCEPT ![s] = NewSub(kind, roomId)]
       /\ lastOp' = [op |-> "subscribe", roomId |-> roomId, arg |-> kind,
                     result |-> TRUE]
  /\ seen' = <<>>
  /\ UNCHANGED <<rooms, roomKeys, roomSubjects, emitted, uuid, sockets, requests,
               httpRes, transform, delivery, streamVars>>

Next ==
  \/ CreateRoom /\ uuid' <= MaxUuid
  \/ JoinRoom /\ uuid' <= MaxUuid
  \/ LeaveRoom /\ uuid' <= MaxUuid
  \/ PostMessage /\ uuid' <= MaxUuid

Spec == Init /\ [][Next]_vars

BusNext ==
  \/ CreateRoomOf(BusRoomInputs) /\ uuid' <= MaxBusUuid
  \/ JoinRoomOf(BusUsers) /\ uuid' <= MaxBusUuid
  \/ LeaveRoom /\ uuid' <= MaxBusUuid
  \/ PostMessage /\ uuid' <= MaxBusUuid
  \/ Subscribe

BusSpec == Init /\ [][BusNext]_vars

(***************************************************************************)
(* eventStream.next(event) step by step.  A Subject calls its observers    *)
(* one after the other, in the order they subscribed, each call starting   *)
(* when the call before it has returned; next returns, and with it         *)
(* emitEvent and the registry call that emitted, when the last observer    *)
(* has returned.  The callbacks are the subscribers' code.                 *)
(***************************************************************************)
\* subscribe on getEventStream()
Observe ==
  \E s \in SubIds :
    /\ delivery.event = <<>>
    /\ ~subs[s].active
    /\ subs' = [subs EXCEPT ![s] = NewSub("all", "general")]
    /\ delivery' = [delivery EXCEPT !.observers = Append(@, s)]
    /\ UNCHANGED <<rooms, roomKeys, roomSubjects, emitted, uuid, seen, lastOp,
                   sockets, requests, httpRes, transform, streamVars>>

\* a registry call runs up to its emitEvent: r is what the call does when
\* every callback returns, of which the deliveries are left to the steps of
\* next; a call that emits nothing returns at once.  What the calls return
\* is not recorded here.
Begin(r, op, roomId) ==
  /\ delivery.event = <<>>
  /\ rooms' = r.cm.rooms
  /\ roomKeys' = r.cm.roomKeys
  /\ roomSubjects' = r.cm.roomSubjects
  /\ emitted' = r.cm.emitted
  /\ uuid' = r.cm.uuid
  /\ seen' = r.cm.seen
  /\ subs' = subs
  /\ delivery' = IF Len(r.cm.emitted) = Len(emitted) THEN delivery
                 ELSE [delivery EXCEPT
                         !.event = <<r.cm.emitted[Len(r.cm.emitted)]>>,
                         !.pending = delivery.observers,
                         !.call = <<[op |-> op, roomId |-> roomId]>>]
  /\ UNCHANGED <<lastOp, sockets, requests, httpRes, transform, streamVars>>

BeginJoin ==
  \E roomId \in RoomIds, user \in BusUsers :
    Begin(addUserToRoom(CM, roomId, user), "addUserToRoom", roomId)

BeginLeave ==
  \E roomId \in RoomIds, userId \in UserIds :
    Begin(removeUserFromRoom(CM, roomId, userId), "removeUserFromRoom", roomId)

BeginPost ==
  \E roomId \in RoomIds, userId \in UserIds, content \in Contents :
    Begin(addMessage(CM, roomId, userId, content), "addMessage", roomId)

\* next calls the observer that is next in turn
CallObserver ==
  /\ delivery.event # <<>>
  /\ delivery.running = <<>>
  /\ delivery.pending # <<>>
  /\ LET s == Head(delivery.pending)
     IN  /\ subs' = [subs EXCEPT ![s] = Deliver(subs[s], delivery.event[1])]
         /\ delivery' = [delivery EXCEPT !.pending = Tail(@), !.running = <<s>>]
  /\ UNCHANGED <<rooms, roomKeys, roomSubjects, emitted, uuid, seen, lastOp,
                 sockets, requests, httpRes, transform, streamVars>>

\* the callback of observer s returns
ObserverReturns(s) ==
  /\ delivery.running = <<s>>
  /\ delivery' = [delivery EXCEPT !.running = <<>>]
  /\ UNCHANGED <<cmVars, sockets, requests, httpRes, transform, streamVars>>

\* every observer was called and has returned: next, emitEvent and the
\* registry call return
NextReturns ==
  /\ delivery.event # <<>>
  /\ delivery.running = <<>>
  /\ delivery.pending = <<>>
  /\ delivery' = [delivery EXCEPT !.event = <<>>, !.call = <<>>]
  /\ UNCHANGED <<cmVars, sockets, requests, httpRes, transform, streamVars>>

StallNext ==
  \/ Observe
  \/ BeginJoin /\ uuid' <= MaxStallUuid
  \/ BeginLeave /\ uuid' <= MaxStallUuid
  \/ BeginPost /\ uuid' <= MaxStallUuid
  \/ CallObserver
  \/ \E s \in SubIds : ObserverReturns(s)
  \/ NextReturns

\* the engine runs the registry's code to its end, and a callback that is
\* not slow returns; nothing makes a slow subscriber's callback return
StallSpec ==
  /\ Init
  /\ [][StallNext]_vars
  /\ WF_vars(CallObserver)
  /\ WF_vars(NextReturns)
  /\ \A s \in SubIds \ SlowSubs : WF_vars(ObserverReturns(s))

(***************************************************************************)
(* SocketHandler: the handlers of a connection's requests.                 *)
(***************************************************************************)
WhiteSpace == {" ", "\t", "\n", "\r"}

\* (variant: at most one white-space character is removed from each end)
TrimM(s) ==
  LET a == IF s # <<>> /\ Head(s) \in WhiteSpace THEN Tail(s) ELSE s
  IN  IF a # <<>> /\ a[Len(a)] \in WhiteSpace THEN SubSeq(a, 1, Len(a) - 1) ELSE a

\* String.prototype.trim
Trim(s) ==
  LET keep == { i \in 1..Len(s) : s[i] \notin WhiteSpace }
      first == CHOOSE i \in keep : \A j \in keep : i <= j
      last == CHOOSE i \in keep : \A j \in keep : i >= j
  IN  IF keep = {} THEN <<>> ELSE SubSeq(s, first, last)

\* how many messages of the history a joining connection is sent
SnapshotLimit == 50

\* socket.emit(event, arg)
Emit(socks, c, event, arg) ==
  [socks EXCEPT ![c].inbox = Append(@, [event |-> event, arg |-> arg])]

\* list.forEach((x) => socket.emit(event, x))
EmitEach(socks, c, event, list) ==
  [socks EXCEPT ![c].inbox =
     @ \o [i \in 1..Len(list) |-> [event |-> event, arg |-> list[i]]]]

\* socket.to(roomId).emit(event, arg): every other socket in the transport room
SocketTo(socks, c, roomId, event, arg) ==
  [d \in DOMAIN socks |->
     IF d # c /\ roomId \in socks[d].rooms
       THEN [socks[d] EXCEPT !.inbox = Append(@, [event |-> event, arg |-> arg])]
       ELSE socks[d]]

\* io.to(roomId).emit(event, arg): every socket in the transport room
IoTo(socks, roomId, event, arg) ==
  [d \in DOMAIN socks |->
     IF roomId \in socks[d].rooms
       THEN [socks[d] EXCEPT !.inbox = Append(@, [event |-> event, arg |-> arg])]
       ELSE socks[d]]

\* handleJoinRoom(socket, roomId, username)
handleJoinRoom(cm, socks, c, roomId, username) ==
  LET c0 == [cm EXCEPT !.uuid = @ + 1]
      user == [id |-> Uuid(c0.uuid), username |-> Trim(username)]
      s1 == [socks EXCEPT
               ![c].data = [userId |-> user.id, username |-> user.username,
                            roomId |-> roomId],
               ![c].rooms = @ \cup {roomId},
               ![c].created = @ \cup {user.id}]
      r == addUserToRoom(c0, roomId, user)
      call == [op |-> "addUserToRoom", roomId |-> roomId, arg |-> user,
               result |-> r.result]
  IN  IF r.result
        THEN
          LET s2 == Emit([s1 EXCEPT ![c].joined = @ \cup {roomId}], c,
                         "roomUsers", getRoomUsers(r.cm, roomId))
              s3 == EmitEach(s2, c, "message",
                             getRoomMessages(r.cm, roomId, <<SnapshotLimit>>))
              s4 == SocketTo(s3, c, roomId, "userJoined", user)
          IN  [cm |-> r.cm, socks |-> s4, calls |-> <<call>>]
        ELSE [cm |-> r.cm, socks |-> Emit(s1, c, "error", "Failed to join room"),
              calls |-> <<call>>]

\* handleLeaveRoom(socket, roomId)
handleLeaveRoom(cm, socks, c, roomId) ==
  LET userId == socks[c].data.userId
      username == socks[c].data.username
  IN  IF Truthy(userId)
        THEN
          LET s1 == [socks EXCEPT ![c].rooms = @ \ {roomId},
                                  ![c].joined = @ \ {roomId}]
              r == removeUserFromRoom(cm, roomId, userId)
              s2 == SocketTo(s1, c, roomId, "userLeft",
                             [id |-> userId, username |-> username])
              s3 == [s2 EXCEPT ![c].data.roomId = Undefined]
          IN  [cm |-> r.cm, socks |-> s3,
               calls |-> <<[op |-> "removeUserFromRoom", roomId |-> roomId,
                            arg |-> userId, result |-> r.result]>>]
        ELSE [cm |-> cm, socks |-> socks, calls |-> <<>>]

\* (variant: a message the registry refused is broadcast as an empty message
\* and no error is reported)
handleSendMessageM(cm, socks, c, roomId, content) ==
  LET userId == socks[c].data.userId
  IN  IF ~Truthy(userId)
        THEN [cm |-> cm, socks |-> Emit(socks, c, "error", "User not authenticated"),
              calls |-> <<>>]
      ELSE IF Trim(content) = <<>>
        THEN [cm |-> cm, socks |-> Emit(socks, c, "error", "Message cannot be empty"),
              calls |-> <<>>]
      ELSE
        LET r == addMessage(cm, roomId, userId, Trim(content))
            call == [op |-> "addMessage", roomId |-> roomId,
                     arg |-> [userId |-> userId, content |-> Trim(content)],
                     result |-> r.result]
        IN  IF r.result # <<>>
              THEN [cm |-> r.cm, socks |-> IoTo(socks, roomId, "message", r.result[1]),
                    calls |-> <<call>>]
              ELSE [cm |-> r.cm,
                    socks |-> IoTo(socks, roomId, "message",
                                   TextMessage(cm, userId, [username |-> <<>>], <<>>)),
                    calls |-> <<call>>]

\* handleSendMessage(socket, roomId, content)
handleSendMessage(cm, socks, c, roomId, content) ==
  LET userId == socks[c].data.userId
  IN  IF ~Truthy(userId)
        THEN [cm |-> cm, socks |-> Emit(socks, c, "error", "User not authenticated"),
              calls |-> <<>>]
      ELSE IF Trim(content) = <<>>
        THEN [cm |-> cm, socks |-> Emit(socks, c, "error", "Message cannot be empty"),
              calls |-> <<>>]
      ELSE
        LET r == addMessage(cm, roomId, userId, Trim(content))
            call == [op |-> "addMessage", roomId |-> roomId,
                     arg |-> [userId |-> userId, content |-> Trim(content)],
                     result |-> r.result]
        IN  IF r.result # <<>>
              THEN [cm |-> r.cm, socks |-> IoTo(socks, roomId, "message", r.result[1]),
                    calls |-> <<call>>]
              ELSE [cm |-> r.cm,
                    socks |-> Emit(socks, c, "error", "Failed to send message"),
                    calls |-> <<call>>]

\* handleDisconnect(socket): the transport has taken the socket out of its
\* rooms before the handler runs
handleDisconnect(cm, socks, c) ==
  LET userId == socks[c].data.userId
      username == socks[c].data.username
      roomId == socks[c].data.roomId
      s1 == [socks EXCEPT ![c].rooms = {}, ![c].state = "closed",
                          ![c].joined = {}]
  IN  IF Truthy(userId) /\ Truthy(roomId)
        THEN
          LET r == removeUserFromRoom(cm, roomId, userId)
              s2 == SocketTo(s1, c, roomId, "userLeft",
                             [id |-> userId, username |-> username])
          IN  [cm |-> r.cm, socks |-> s2,
               calls |-> <<[op |-> "removeUserFromRoom", roomId |-> roomId,
                            arg |-> userId, result |-> r.result]>>]
        ELSE [cm |-> cm, socks |-> s1, calls |-> <<>>]

\* the effects of the handler of connection c's request; lastOp is the
\* registry call the handler made, if any
Handled(c, event, roomId, h) ==
  /\ Commit(h.cm)
  /\ sockets' = [h.socks EXCEPT ![c].last = [n |-> @.n + 1, event |-> event,
                                             roomId |-> roomId]]
  /\ lastOp' = IF h.calls = <<>> THEN lastOp ELSE h.calls[1]
  /\ UNCHANGED <<httpRes, transform, delivery, streamVars>>

\* io.on("connection"): a new socket, nothing in its data
Connect ==
  \E c \in Conns :
    /\ sockets[c].state = "none"
    /\ sockets' = [sockets EXCEPT ![c].state = "connected"]
    /\ UNCHANGED <<cmVars, requests, httpRes, transform, delivery, streamVars>>

OnJoinRoomBy(c) ==
  \E roomId \in RoomIds, username \in Usernames :
    /\ sockets[c].state = "connected"
    /\ requests < MaxRequests
    /\ requests' = requests + 1
    /\ Handled(c, "joinRoom", roomId, handleJoinRoom(CM, sockets, c, roomId, username))

OnJoinRoom == \E c \in Conns : OnJoinRoomBy(c)

OnLeaveRoomBy(c) ==
  \E roomId \in RoomIds :
    /\ sockets[c].state = "connected"
    /\ requests < MaxRequests
    /\ requests' = requests + 1
    /\ Handled(c, "leaveRoom", roomId, handleLeaveRoom(CM, sockets, c, roomId))

OnLeaveRoom == \E c \in Conns : OnLeaveRoomBy(c)

OnSendMessageBy(c) ==
  \E roomId \in RoomIds, content \in SentContents :
    /\ sockets[c].state = "connected"
    /\ requests < MaxRequests
    /\ requests' = requests + 1
    /\ Handled(c, "sendMessage", roomId, handleSendMessage(CM, sockets, c, roomId, content))

OnSendMessage == \E c \in Conns : OnSendMessageBy(c)

OnDisconnectBy(c) ==
  /\ sockets[c].state = "connected"
  /\ UNCHANGED requests
  /\ Handled(c, "disconnect", Undefined, handleDisconnect(CM, sockets, c))

OnDisconnect == \E c \in Conns : OnDisconnectBy(c)

SocketNext ==
  \/ Connect
  \/ OnJoinRoom
  \/ OnLeaveRoom
  \/ OnSendMessage
  \/ OnDisconnect

SocketSpec == Init /\ [][SocketNext]_vars

(***************************************************************************)
(* StreamChatServer: POST /api/rooms.                                      *)
(***************************************************************************)
\* (variant: the adapter does not look the id up before it creates the room)
postApiRoomsM(cm, id, name) ==
  IF ~Truthy(id) \/ ~Truthy(name)
    THEN [cm |-> cm, calls |-> <<>>,
          res |-> [status |-> 400, body |-> <<"Room ID and name are required">>]]
  ELSE
    LET r == createRoom(cm, id, name)
    IN  [cm |-> r.cm,
         calls |-> <<[op |-> "createRoom", roomId |-> id, arg |-> name,
                      result |-> [threw |-> r.threw, room |-> r.result]]>>,
         res |-> [status |-> 201, body |-> <<r.result.id, r.result.name>>]]

\* the handler of POST /api/rooms: what it makes of the registry, the calls
\* it makes on it and the response it sends
postApiRooms(cm, id, name) ==
  IF ~Truthy(id) \/ ~Truthy(name)
    THEN [cm |-> cm, calls |-> <<>>,
          res |-> [status |-> 400, body |-> <<"Room ID and name are required">>]]
  ELSE IF getRoom(cm, id) # <<>>
    THEN [cm |-> cm, calls |-> <<>>,
          res |-> [status |-> 409, body |-> <<"Room already exists">>]]
  ELSE
    LET r == createRoom(cm, id, name)
    IN  [cm |-> r.cm,
         calls |-> <<[op |-> "createRoom", roomId |-> id, arg |-> name,
                      result |-> [threw |-> r.threw, room |-> r.result]]>>,
         res |-> [status |-> 201, body |-> <<r.result.id, r.result.name>>]]

PostApiRooms ==
  \E in \in HttpRoomInputs :
    LET h == postApiRooms(CM, in[1], in[2])
    IN  /\ httpRes.n < MaxHttpRequests
        /\ Commit(h.cm)
        /\ lastOp' = IF h.calls = <<>> THEN lastOp ELSE h.calls[1]
        /\ httpRes' = [status |-> h.res.status, body |-> h.res.body,
                       req |-> in, n |-> httpRes.n + 1]
        /\ UNCHANGED <<sockets, requests, transform, delivery, streamVars>>

HttpNext ==
  \/ PostApiRooms
  \/ JoinRoomOf(BusUsers) /\ uuid' <= MaxHttpUuid
  \/ LeaveRoom /\ uuid' <= MaxHttpUuid
  \/ PostMessage /\ uuid' <= MaxHttpUuid

HttpSpec == Init /\ [][HttpNext]_vars

(***************************************************************************)
(* MessageTransform: the content sanitizer, an object-mode Transform       *)
(* stream.                                                                 *)
(***************************************************************************)
\* the characters of the contents written to the transform
ContentChars == {"<", ">", " ", "a"}

\* the messages written to the transform from outside the registry
TransformInputs ==
  { [id |-> "m1", userId |-> "u1", username |-> <<"a">>, content |-> c,
     type |-> TEXT] :
      c \in UNION { [1..n -> ContentChars] : n \in 0..MaxContentLen } }

Lt == <<"&", "l", "t", ";">>
Gt == <<"&", "g", "t", ";">>

\* (variant: a pattern without the g flag, only the first match is replaced)
ReplaceAllM(s, ch, by) ==
  LET hits == { i \in 1..Len(s) : s[i] = ch }
      first == CHOOSE i \in hits : \A j \in hits : i <= j
  IN  IF hits = {} THEN s
      ELSE SubSeq(s, 1, first - 1) \o by \o SubSeq(s, first + 1, Len(s))

\* String.prototype.replace(/ch/g, by)
RECURSIVE ReplaceAll(_, _, _)
ReplaceAll(s, ch, by) ==
  IF s = <<>> THEN <<>>
  ELSE (IF Head(s) = ch THEN by ELSE <<Head(s)>>) \o ReplaceAll(Tail(s), ch, by)

\* (variant: the sanitized content is assigned to the message that was passed)
processMessageM(message) ==
  LET sanitizedContent ==
        Trim(ReplaceAll(ReplaceAll(message.content, "<", Lt), ">", Gt))
  IN  [argument |-> [message EXCEPT !.content = sanitizedContent],
       returned |-> [message EXCEPT !.content = sanitizedContent]]

\* processMessage(message): Message.  returned is the object the method
\* returns, argument the object it was passed as the method leaves it.
processMessage(message) ==
  LET sanitizedContent ==
        Trim(ReplaceAll(ReplaceAll(message.content, "<", Lt), ">", Gt))
  IN  [argument |-> message,
       returned |-> [message EXCEPT !.content = sanitizedContent]]

\* the histories once the message object with the id, an object of a
\* history, is left as the value by a callee
StoreBack(rs, id, value) ==
  [r \in DOMAIN rs |->
     [rs[r] EXCEPT !.messages =
        [i \in 1..Len(rs[r].messages) |->
           IF rs[r].messages[i].id = id THEN value ELSE rs[r].messages[i]]]]

\* _transform(message, encoding, callback): push(processMessage(message))
Write(message, from) ==
  /\ transform.applied < MaxApplied
  /\ transform' = [written |-> <<message>>,
                   pushed |-> <<processMessage(message).returned>>,
                   from |-> from, applied |-> transform.applied + 1]
  /\ rooms' = IF from \in {"history", "stream"}
                THEN StoreBack(rooms, message.id, processMessage(message).argument)
                ELSE rooms
  /\ UNCHANGED <<roomKeys, roomSubjects, emitted, subs, uuid, seen, lastOp,
                 sockets, requests, httpRes, delivery, streamVars>>

\* a message from outside the registry is written to the transform
TransformWrite == \E message \in TransformInputs : Write(message, "input")

\* what the transform pushed is written to a transform again
TransformAgain ==
  /\ transform.pushed # <<>>
  /\ Write(transform.pushed[1], "output")

\* a message of a room's history is written to the transform
TransformStored ==
  \E r \in DOMAIN rooms :
    \E i \in 1..Len(rooms[r].messages) : Write(rooms[r].messages[i], "history")

\* a message that the message stream carried is written to the transform
TransformStreamed ==
  \E i \in 1..Len(emitted) :
    /\ emitted[i].type = MESSAGE_SENT
    /\ Write(emitted[i].payload.message, "stream")

SanitizerNext ==
  \/ TransformWrite
  \/ TransformAgain

SanitizerSpec == Init /\ [][SanitizerNext]_vars

HistoryNext ==
  \/ JoinRoomOf(BusUsers) /\ uuid' <= MaxHistoryUuid
  \/ PostMessage /\ uuid' <= MaxHistoryUuid
  \/ TransformStored
  \/ TransformStreamed
  \/ TransformAgain

HistorySpec == Init /\ [][HistoryNext]_vars

(***************************************************************************)
(* UserActivityTransform: the activity tracker.                            *)
(***************************************************************************)
\* the inactivity window of getActiveUsers, in minutes
InactivityWindow == 5

\* the events written to the tracker
ActivityInputs ==
  { [user |-> u, action |-> a] : u \in BusUsers, a \in {"joined", "message_sent"} }

\* (variant: the users are counted before the event's user is recorded)
activityTransformM(tr, data) ==
  LET userActivity == MapSet(tr.userActivity, [id |-> data.user.id, at |-> tr.now])
      activityData == [user |-> data.user, action |-> data.action,
                       lastActivity |-> MapGet(userActivity, data.user.id).at,
                       activeUsers |-> Len(tr.userActivity)]
  IN  [tr EXCEPT !.userActivity = userActivity, !.pushed = <<activityData>>,
                 !.last = "write"]

\* _transform(data, encoding, callback) of UserActivityTransform
activityTransform(tr, data) ==
  LET userActivity == MapSet(tr.userActivity, [id |-> data.user.id, at |-> tr.now])
      activityData == [user |-> data.user, action |-> data.action,
                       lastActivity |-> MapGet(userActivity, data.user.id).at,
                       activeUsers |-> Len(userActivity)]
  IN  [tr EXCEPT !.userActivity = userActivity, !.pushed = <<activityData>>,
                 !.last = "write"]

\* (variant: an entry that is exactly as old as the window is removed too)
getActiveUsersM(tr) ==
  LET fiveMinutesAgo == tr.now - InactivityWindow
      userActivity == SelectSeq(tr.userActivity, LAMBDA e : ~(e.at <= fiveMinutesAgo))
  IN  [tr EXCEPT !.userActivity = userActivity, !.returned = <<Len(userActivity)>>,
                 !.last = "getActiveUsers"]

\* getActiveUsers(): number
getActiveUsers(tr) ==
  LET fiveMinutesAgo == tr.now - InactivityWindow
      userActivity == SelectSeq(tr.userActivity, LAMBDA e : ~(e.at < fiveMinutesAgo))
  IN  [tr EXCEPT !.userActivity = userActivity, !.returned = <<Len(userActivity)>>,
                 !.last = "getActiveUsers"]

ActivityWrite ==
  /\ \E data \in ActivityInputs : tracker' = activityTransform(tracker, data)
  /\ UNCHANGED <<cmVars, sockets, requests, httpRes, transform, delivery, reader,
                 stack>>

GetActiveUsers ==
  /\ tracker' = getActiveUsers(tracker)
  /\ UNCHANGED <<cmVars, sockets, requests, httpRes, transform, delivery, reader,
                 stack>>

\* a minute passes
Tick ==
  /\ tracker.now < MaxNow
  /\ tracker' = [tracker EXCEPT !.now = @ + 1, !.last = "tick"]
  /\ UNCHANGED <<cmVars, sockets, requests, httpRes, transform, delivery, reader,
                 stack>>

ActivityNext ==
  \/ ActivityWrite
  \/ GetActiveUsers
  \/ Tick

ActivitySpec == Init /\ [][ActivityNext]_vars

(***************************************************************************)
(* MessageHistoryStream: a Readable over an array of messages.  The        *)
(* Readable calls _read while its consumer wants data and hands each       *)
(* pushed message to the consumer; push(null) tells it the end.  It calls  *)
(* _read no more after that; a call made all the same is modelled too.     *)
(***************************************************************************)
\* the messages the arrays are made of
HistoryMessages ==
  { [id |-> i, userId |-> "u1", username |-> <<"a">>, content |-> <<"a">>,
     type |-> TEXT] : i \in {"1", "2", "3"} }

\* the arrays a MessageHistoryStream is constructed over
HistoryInputs ==
  UNION { [1..n -> HistoryMessages] : n \in 0..MaxHistoryLen }

\* new MessageHistoryStream(messages)
newMessageHistoryStream(messages) ==
  [state |-> "flowing", messages |-> messages, currentIndex |-> 0,
   data |-> <<>>, ended |-> FALSE]

\* (variant: the index is compared with the last index, not with the length)
readM(rd) ==
  IF rd.currentIndex < Len(rd.messages) - 1
    THEN [rd EXCEPT !.data = Append(@, rd.messages[rd.currentIndex + 1]),
                    !.currentIndex = @ + 1]
    ELSE [rd EXCEPT !.ended = TRUE, !.state = "ended"]

\* _read(): push(messages[currentIndex]) and currentIndex++, or push(null)
read(rd) ==
  IF rd.currentIndex < Len(rd.messages)
    THEN [rd EXCEPT !.data = Append(@, rd.messages[rd.currentIndex + 1]),
                    !.currentIndex = @ + 1]
    ELSE [rd EXCEPT !.ended = TRUE, !.state = "ended"]

NewHistoryStream ==
  /\ reader.state = "none"
  /\ \E messages \in HistoryInputs : reader' = newMessageHistoryStream(messages)
  /\ UNCHANGED <<cmVars, sockets, requests, httpRes, transform, delivery, tracker,
                 stack>>

HistoryRead ==
  /\ reader.state # "none"
  /\ reader' = read(reader)
  /\ UNCHANGED <<cmVars, sockets, requests, httpRes, transform, delivery, tracker,
                 stack>>

ReaderNext ==
  \/ NewHistoryStream
  \/ HistoryRead

\* the Readable goes on calling _read as long as the end was not pushed
ReaderSpec == Init /\ [][ReaderNext]_vars /\ WF_vars(HistoryRead)

(***************************************************************************)
(* The registry's calls step by step, with subscribers of a room stream    *)
(* (getRoomStream) and of the event stream whose callbacks call the        *)
(* registry.  An accepted call changes the room and pushes its message,    *)
(* calls updateRoom, whose subject.next runs the room stream's callbacks,  *)
(* then emitEvent, whose eventStream.next runs the event stream's          *)
(* callbacks, and returns.  The engine runs one call at a time: only the   *)
(* innermost call moves, and a new call starts either when none is in      *)
(* progress or from a callback that is running.                            *)
(***************************************************************************)
Top == stack.frames[Len(stack.frames)]

\* a call can be made: from outside, or from a callback that is running
CanCall ==
  /\ Len(stack.frames) < MaxDepth
  /\ stack.frames # <<>> => Top.pc \in {"roomCallback", "eventCallback"}

\* the call runs up to its updateRoom: cm is the registry with the room
\* changed and the message pushed, event the event the call will emit
Enter(cm, op, roomId, event) ==
  /\ CanCall
  /\ Commit(cm)
  /\ stack' = [stack EXCEPT
                 !.frames = Append(@, [op |-> op, roomId |-> roomId,
                                       event |-> event,
                                       messageId |-> Uuid(cm.uuid),
                                       pc |-> "updateRoom"]),
                 !.nested = IF stack.frames = <<>> THEN @ ELSE @ \cup {Top.pc}]
  /\ UNCHANGED <<lastOp, sockets, requests, httpRes, transform, delivery,
                 tracker, reader>>

\* addUserToRoom up to its updateRoom (a refused call changes nothing and
\* calls nobody: it is no step)
EnterJoin ==
  \E roomId \in DOMAIN rooms, user \in BusUsers :
    LET c1 == [CM EXCEPT !.rooms[roomId].users = MapSet(@, user)]
        c2 == Push(c1, roomId, JoinMessage(c1, user))
    IN  Enter(c2, "addUserToRoom", roomId,
              [type |-> ROOM_JOINED,
               payload |-> [roomId |-> roomId, user |-> user]])

\* removeUserFromRoom up to its updateRoom
EnterLeave ==
  \E roomId \in DOMAIN rooms, userId \in UserIds :
    /\ MapHas(rooms[roomId].users, userId)
    /\ LET user == MapGet(rooms[roomId].users, userId)
           c1 == [CM EXCEPT !.rooms[roomId].users = MapDelete(@, userId)]
           c2 == Push(c1, roomId, LeaveMessage(c1, user))
       IN  Enter(c2, "removeUserFromRoom", roomId,
                 [type |-> ROOM_LEFT,
                  payload |-> [roomId |-> roomId, user |-> user]])

\* addMessage up to its updateRoom
EnterPost ==
  \E roomId \in DOMAIN rooms, userId \in UserIds, content \in Contents :
    /\ MapHas(rooms[roomId].users, userId)
    /\ LET user == MapGet(rooms[roomId].users, userId)
           message == TextMessage(CM, userId, user, content)
           c2 == Push(CM, roomId, message)
       IN  Enter(c2, "addMessage", roomId,
                 [type |-> MESSAGE_SENT,
                  payload |-> [roomId |-> roomId, message |-> message]])

\* the innermost call moves on to pc
Goto(pc) ==
  stack' = [stack EXCEPT !.frames[Len(stack.frames)].pc = pc]

\* updateRoom(room): rooms.set and subject.next, which calls the room
\* stream's subscriber
UpdateRoomStep ==
  /\ stack.frames # <<>>
  /\ Top.pc = "updateRoom"
  /\ Commit(UpdateRoom(CM, Top.roomId))
  /\ Goto("roomCallback")
  /\ UNCHANGED <<lastOp, sockets, requests, httpRes, transform, delivery,
                 tracker, reader>>

\* the room stream's callback returns, and updateRoom with it
RoomCallbackReturns ==
  /\ stack.frames # <<>>
  /\ Top.pc = "roomCallback"
  /\ Goto("emitEvent")
  /\ UNCHANGED <<cmVars, sockets, requests, httpRes, transform, delivery,
                 tracker, reader>>

\* emitEvent(event): eventStream.next, which calls the event stream's
\* subscriber
EmitEventStep ==
  /\ stack.frames # <<>>
  /\ Top.pc = "emitEvent"
  /\ Commit(EmitEvent(CM, Top.event))
  /\ stack' = [stack EXCEPT !.frames[Len(stack.frames)].pc = "eventCallback",
                            !.published = Append(@, Top.messageId)]
  /\ UNCHANGED <<lastOp, sockets, requests, httpRes, transform, delivery,
                 tracker, reader>>

\* the event stream's callback returns, and emitEvent and the call with it
EventCallbackReturns ==
  /\ stack.frames # <<>>
  /\ Top.pc = "eventCallback"
  /\ stack' = [stack EXCEPT !.frames = SubSeq(@, 1, Len(@) - 1)]
  /\ UNCHANGED <<cmVars, sockets, requests, httpRes, transform, delivery,
                 tracker, reader>>

ReentrantNext ==
  \/ EnterJoin /\ uuid' <= MaxReentrantUuid
  \/ EnterLeave /\ uuid' <= MaxReentrantUuid
  \/ EnterPost /\ uuid' <= MaxReentrantUuid
  \/ UpdateRoomStep
  \/ RoomCallbackReturns
  \/ EmitEventStep
  \/ EventCallbackReturns

ReentrantSpec == Init /\ [][ReentrantNext]_vars

(***************************************************************************)
(* The registry read by its callers between the calls that change it.      *)
(***************************************************************************)
\* the limits a reader passes: none, 0 and a number
ReadLimits == { <<>>, <<0>>, <<1>> }

\* getRoomMessages(roomId, limit?) is called; the method assigns nothing
GetRoomMessages ==
  \E roomId \in RoomIds, limit \in ReadLimits :
    /\ lastOp' = [op |-> "getRoomMessages", roomId |-> roomId, arg |-> limit,
                  result |-> [threw |-> "nothing",
                              value |-> getRoomMessages(CM, roomId, limit)]]
    /\ seen' = <<>>
    /\ UNCHANGED <<rooms, roomKeys, roomSubjects, emitted, subs, uuid, sockets,
                   requests, httpRes, transform, delivery, streamVars>>

\* (variant: a room that is not found is created by the read)
GetRoomUsersM ==
  \E roomId \in RoomIds :
    LET cm == IF roomId \in DOMAIN rooms THEN CM
              ELSE createRoom(CM, roomId, roomId).cm
    IN  /\ lastOp' = [op |-> "getRoomUsers", roomId |-> roomId, arg |-> <<>>,
                      result |-> [threw |-> "nothing",
                                  value |-> getRoomUsers(cm, roomId)]]
        /\ Commit(cm)
        /\ UNCHANGED <<sockets, requests, httpRes, transform, delivery,
                       streamVars>>

\* getRoomUsers(roomId) is called; the method assigns nothing
GetRoomUsers ==
  \E roomId \in RoomIds :
    /\ lastOp' = [op |-> "getRoomUsers", roomId |-> roomId, arg |-> <<>>,
                  result |-> [threw |-> "nothing",
                              value |-> getRoomUsers(CM, roomId)]]
    /\ seen' = <<>>
    /\ UNCHANGED <<rooms, roomKeys, roomSubjects, emitted, subs, uuid, sockets,
                   requests, httpRes, transform, delivery, streamVars>>

ReadNext ==
  \/ CreateRoomOf(BusRoomInputs) /\ uuid' <= MaxReadUuid
  \/ JoinRoomOf(BusUsers) /\ uuid' <= MaxReadUuid
  \/ LeaveRoom /\ uuid' <= MaxReadUuid
  \/ PostMessage /\ uuid' <= MaxReadUuid
  \/ GetRoomMessages
  \/ GetRoomUsers

ReadSpec == Init /\ [][ReadNext]_vars

(***************************************************************************)
(* Helpers of the properties.                                              *)
(***************************************************************************)
\* the ChatManager in the state a step leads to
CMnext ==
  [rooms |-> rooms', roomKeys |-> roomKeys', roomSubjects |-> roomSubjects',
   emitted |-> emitted', subs |-> subs', uuid |-> uuid', seen |-> <<>>]

IsPrefix(s, t) == Len(s) <= Len(t) /\ SubSeq(t, 1, Len(s)) = s

Last(s) == s[Len(s)]

AllMessages(cm) ==
  UNION { { cm.rooms[r].messages[i] : i \in 1..Len(cm.rooms[r].messages) } :
          r \in DOMAIN cm.rooms }

IsMember(cm, roomId, userId) ==
  roomId \in DOMAIN cm.rooms /\ MapHas(cm.rooms[roomId].users, userId)

(***************************************************************************)
(* The registry's properties (checked under Spec).                         *)
(***************************************************************************)

\* C1: once a room id exists it exists after every later call, and the
\* room's history before a call is a prefix of its history after it (no
\* recorded message is removed, reordered or replaced), createRoom included.
C1_RoomsAndHistoriesOnlyGrow ==
  [][\A id \in DOMAIN rooms :
       /\ id \in DOMAIN rooms'
       /\ IsPrefix(rooms[id].messages, rooms'[id].messages)]_vars

\* what a callback (or a reader after the call) is shown of a join: the user
\* is a member and the call's SYSTEM_JOIN message is recorded
ShowsJoin(room, messageId) ==
  /\ MapHas(room.users, lastOp.arg.id)
  /\ \E i \in 1..Len(room.messages) :
       room.messages[i].id = messageId /\ room.messages[i].type = USER_JOINED

\* ... and of a leave: the user is no member and the call's SYSTEM_LEAVE
\* message is recorded
ShowsLeave(room, messageId) ==
  /\ ~MapHas(room.users, lastOp.arg)
  /\ \E i \in 1..Len(room.messages) :
       room.messages[i].id = messageId /\ room.messages[i].type = USER_LEFT

\* C2: every subscriber callback run by a successful joinRoom (leaveRoom),
\* on the room stream and on the event stream, and every reader after the
\* call, is shown the membership change together with the call's system
\* message, never one without the other.
C2_JoinAndLeaveAreAtomic ==
  /\ (lastOp.op = "addUserToRoom" /\ lastOp.result)
       => /\ Len(seen) = 2
          /\ \A i \in 1..Len(seen) : ShowsJoin(seen[i].room, Uuid(uuid))
          /\ ShowsJoin(rooms[lastOp.roomId], Uuid(uuid))
  /\ (lastOp.op = "removeUserFromRoom" /\ lastOp.result)
       => /\ Len(seen) = 2
          /\ \A i \in 1..Len(seen) : ShowsLeave(seen[i].room, Uuid(uuid))
          /\ ShowsLeave(rooms[lastOp.roomId], Uuid(uuid))

\* a leave's callbacks were run: one on the room stream, one on the event stream
C2_Witness ==
  /\ lastOp.op = "removeUserFromRoom"
  /\ lastOp.result
  /\ Len(seen) = 2
  /\ seen[1].via = "roomStream"
  /\ seen[2].via = "eventStream"

\* C3: postMessage for an absent room or for a user who is no current member
\* of the room returns absent, leaves every room as it was and publishes no
\* event.
C3_PostByNonMemberIsRefused ==
  [][(/\ lastOp'.op = "addMessage"
      /\ ~IsMember(CM, lastOp'.roomId, lastOp'.arg.userId))
       => /\ lastOp'.result = <<>>
          /\ rooms' = rooms
          /\ emitted' = emitted
          /\ subs' = subs]_vars

\* a post was refused in a room whose last message says that someone left
C3_Witness ==
  /\ lastOp.op = "addMessage"
  /\ lastOp.result = <<>>
  /\ lastOp.roomId \in DOMAIN rooms
  /\ rooms[lastOp.roomId].messages # <<>>
  /\ Last(rooms[lastOp.roomId].messages).type = USER_LEFT

\* the message a successful call records: the returned one for a post, the
\* system message for a join or leave
RecordedBy(op, m) ==
  /\ m.id = Uuid(uuid')
  /\ m.id \notin { x.id : x \in AllMessages(CM) }
  /\ op.op = "addMessage" => m = op.result[1] /\ m.type = TEXT
  /\ op.op = "addUserToRoom" => m.type = USER_JOINED
  /\ op.op = "removeUserFromRoom" => m.type = USER_LEFT

Accepted(op) ==
  \/ op.op = "addMessage" /\ op.result # <<>>
  \/ op.op \in {"addUserToRoom", "removeUserFromRoom"} /\ op.result

\* C4: every accepted joinRoom, leaveRoom and postMessage appends exactly one
\* message, its own, at the end of its room's history, and a refused one
\* appends nothing: roomHistory(roomId) without a limit is the accepted
\* operations' messages, each once, in the order of acceptance.
C4_HistoryIsInAcceptanceOrder ==
  [][lastOp'.op \in {"addMessage", "addUserToRoom", "removeUserFromRoom"}
       => \A r \in RoomIds :
            LET before == getRoomMessages(CM, r, <<>>)
                after == getRoomMessages(CMnext, r, <<>>)
            IN  IF Accepted(lastOp') /\ r = lastOp'.roomId
                  THEN /\ Len(after) = Len(before) + 1
                       /\ SubSeq(after, 1, Len(before)) = before
                       /\ RecordedBy(lastOp', Last(after))
                  ELSE after = before]_vars

\* a second post was accepted after a first one
C4_Witness ==
  /\ lastOp.op = "addMessage"
  /\ lastOp.result # <<>>
  /\ LET h == getRoomMessages(CM, lastOp.roomId, <<>>)
     IN  /\ Len(h) = 3
         /\ h[2].type = TEXT
         /\ h[3] = lastOp.result[1]

\* C7: createRoom with an id that is already registered fails with a
\* DuplicateRoomError and registers no new room.
C7_DuplicateRoomIsRefused ==
  [][(lastOp'.op = "createRoom" /\ lastOp'.roomId \in DOMAIN rooms)
       => /\ lastOp'.result.threw = "DuplicateRoomError"
          /\ rooms' = rooms]_vars

\* C8: joinRoom on an existing room returns true; right after it the members
\* contain the user and the history ends with a SYSTEM_JOIN message of the
\* system worded "<username> joined the room".
C8_JoinAddsMemberAndAnnounces ==
  [][(lastOp'.op = "addUserToRoom" /\ lastOp'.roomId \in DOMAIN rooms)
       => LET u == lastOp'.arg
              members == getRoomUsers(CMnext, lastOp'.roomId)
              history == getRoomMessages(CMnext, lastOp'.roomId, <<>>)
          IN  /\ lastOp'.result = TRUE
              /\ \E i \in 1..Len(members) : members[i] = u
              /\ history # <<>>
              /\ Last(history).type = USER_JOINED
              /\ Last(history).userId = SystemUserId
              /\ Last(history).content = u.username \o JoinedSuffix]_vars

\* a join into a room that already has a history
C8_Witness ==
  /\ lastOp.op = "addUserToRoom"
  /\ lastOp.result
  /\ Len(rooms[lastOp.roomId].messages) >= 2

\* C9: leaveRoom of a current member returns true; afterwards the members no
\* longer contain the user and the history has gained exactly one message,
\* at its end: a SYSTEM_LEAVE message worded "<username> left the room".
C9_LeaveRemovesMemberAndAnnounces ==
  [][(lastOp'.op = "removeUserFromRoom" /\ IsMember(CM, lastOp'.roomId, lastOp'.arg))
       => LET u == MapGet(rooms[lastOp'.roomId].users, lastOp'.arg)
              members == getRoomUsers(CMnext, lastOp'.roomId)
              before == getRoomMessages(CM, lastOp'.roomId, <<>>)
              after == getRoomMessages(CMnext, lastOp'.roomId, <<>>)
          IN  /\ lastOp'.result = TRUE
              /\ \A i \in 1..Len(members) : members[i].id # u.id
              /\ Len(after) = Len(before) + 1
              /\ SubSeq(after, 1, Len(before)) = before
              /\ Last(after).type = USER_LEFT
              /\ Last(after).content = u.username \o LeftSuffix]_vars

\* a member left a room in which another member stays
C9_Witness ==
  /\ lastOp.op = "removeUserFromRoom"
  /\ lastOp.result
  /\ Len(rooms[lastOp.roomId].users) = 1

\* C10: leaveRoom for an absent room or for a user who is no current member
\* returns false, appends no message, changes no membership and publishes no
\* event.
C10_LeaveByNonMemberIsRefused ==
  [][(/\ lastOp'.op = "removeUserFromRoom"
      /\ ~IsMember(CM, lastOp'.roomId, lastOp'.arg))
       => /\ lastOp'.result = FALSE
          /\ rooms' = rooms
          /\ emitted' = emitted
          /\ subs' = subs
          /\ uuid' = uuid]_vars

\* a leave was refused in a room whose last message says that someone left:
\* a second leave
C10_Witness ==
  /\ lastOp.op = "removeUserFromRoom"
  /\ lastOp.result = FALSE
  /\ lastOp.roomId \in DOMAIN rooms
  /\ rooms[lastOp.roomId].messages # <<>>
  /\ Last(rooms[lastOp.roomId].messages).type = USER_LEFT

\* C11: postMessage by a current member returns a TEXT message with exactly
\* the given content, the member's id and the member's display name; the
\* message is the last of the room's history afterwards, and exactly one
\* MESSAGE_POSTED event, carrying {roomId, message} for that message, is
\* published.
C11_PostByMemberStoresRawAndPublishes ==
  [][(/\ lastOp'.op = "addMessage"
      /\ IsMember(CM, lastOp'.roomId, lastOp'.arg.userId))
       => /\ Len(lastOp'.result) = 1
          /\ LET message == lastOp'.result[1]
                  member == MapGet(rooms[lastOp'.roomId].users, lastOp'.arg.userId)
              IN  /\ message.type = TEXT
                  /\ message.content = lastOp'.arg.content
                  /\ message.userId = lastOp'.arg.userId
                  /\ message.username = member.username
                  /\ Last(getRoomMessages(CMnext, lastOp'.roomId, <<>>)) = message
                  /\ emitted' = Append(emitted,
                        [type |-> MESSAGE_SENT,
                         payload |-> [roomId |-> lastOp'.roomId,
                                      message |-> message]])]_vars

\* a member whose record was replaced by a re-join under another name posted
\* content with white space and angle brackets
C11_Witness ==
  /\ lastOp.op = "addMessage"
  /\ lastOp.result # <<>>
  /\ \E i \in 1..Len(lastOp.result[1].content) : lastOp.result[1].content[i] = "<"
  /\ lastOp.result[1].content[1] \in WhiteSpace
  /\ \E i \in 1..Len(rooms[lastOp.roomId].messages) :
       /\ rooms[lastOp.roomId].messages[i].type = USER_JOINED
       /\ rooms[lastOp.roomId].messages[i].content
            # lastOp.result[1].username \o JoinedSuffix

\* the last min(k, Len(s)) elements of s, in their order
LastMin(s, k) ==
  LET n == IF k <= Len(s) THEN k ELSE Len(s)
  IN  [i \in 1..n |-> s[Len(s) - n + i]]

\* C12: for every existing room and every limit k >= 0, roomHistory(roomId, k)
\* is the last min(k, L) messages of the room's history of length L, in the
\* same order; without a limit it is the whole history.
C12_HistoryLimitIsTailSlice ==
  \A roomId \in DOMAIN rooms :
    /\ getRoomMessages(CM, roomId, <<>>) = rooms[roomId].messages
    /\ \A k \in 0..MaxLimit :
         getRoomMessages(CM, roomId, <<k>>) = LastMin(rooms[roomId].messages, k)

(***************************************************************************)
(* The event bus's properties (checked under BusSpec).                     *)
(***************************************************************************)

\* C6: a subscriber of subscribeMessages(R) receives each message of a
\* successful postMessage to R made after it subscribed, once and in post
\* order, and nothing else: no message of another room, no join or leave.
C6_MessageStreamCarriesTheRoomsPosts ==
  [][\A s \in SubIds :
       (subs[s].active /\ subs[s].kind = "messages")
         => IF /\ lastOp'.op = "addMessage"
               /\ lastOp'.result # <<>>
               /\ lastOp'.roomId = subs[s].roomId
              THEN subs'[s].received = Append(subs[s].received, lastOp'.result[1])
              ELSE subs'[s].received = subs[s].received]_vars

\* a subscriber of a room's messages was passed a join and then got two posts
C6_Witness ==
  \E s \in SubIds :
    /\ subs[s].active
    /\ subs[s].kind = "messages"
    /\ Len(subs[s].received) = 2
    /\ Len(emitted) - subs[s].since = 3

\* the events the step publishes
Published ==
  SubSeq(emitted', Len(emitted) + 1, Len(emitted'))

\* C15: what a subscriber of the global event stream has received grows, at
\* every step, by exactly the events the step publishes, in publish order:
\* each event once, none missing, none reordered.
C15_GlobalStreamCarriesEveryEventOnce ==
  [][\A s \in SubIds :
       (subs[s].active /\ subs[s].kind = "all")
         => subs'[s].received = subs[s].received \o Published]_vars

\* a subscriber of the global stream got a join, a post and a leave
C15_Witness ==
  \E s \in SubIds :
    /\ subs[s].active
    /\ subs[s].kind = "all"
    /\ Len(subs[s].received) = 3
    /\ subs[s].received[1].type = ROOM_JOINED
    /\ subs[s].received[2].type = MESSAGE_SENT
    /\ subs[s].received[3].type = ROOM_LEFT

\* what a subscription passes on of a sequence of events
Matching(sub, events) ==
  IF sub.kind = "all" THEN events
  ELSE IF sub.kind = "room"
    THEN SelectSeq(events, LAMBDA e : e.payload.roomId = sub.roomId)
  ELSE
    LET posts == SelectSeq(events, LAMBDA e : /\ e.type = MESSAGE_SENT
                                              /\ e.payload.roomId = sub.roomId)
    IN  [i \in 1..Len(posts) |-> posts[i].payload.message]

\* C17: a subscription of the global stream, of a room's events or of a
\* room's messages has received what it passes on of the events published
\* after it was made, and nothing else: no event published before, no replay.
C17_NoReplayToNewSubscription ==
  \A s \in SubIds :
    subs[s].active
      => subs[s].received
           = Matching(subs[s], SubSeq(emitted, subs[s].since + 1, Len(emitted)))

\* a subscription made after a join to its room was published has received
\* a later event of the room
C17_Witness ==
  \E s \in SubIds :
    /\ subs[s].active
    /\ subs[s].since >= 1
    /\ subs[s].kind # "all"
    /\ emitted[1].payload.roomId = subs[s].roomId
    /\ Len(subs[s].received) >= 1

\* the observers that the next in progress has not called yet
Waiting == { delivery.pending[i] : i \in 1..Len(delivery.pending) }

\* C16: a publish that has begun returns to its caller, so that the
\* joinRoom, leaveRoom or postMessage that published completes, and every
\* other subscriber is handed the event, also when a slow subscriber takes
\* arbitrarily long or never finishes handling an event.
C16_SlowSubscriberStallsNobody ==
  /\ (delivery.event # <<>>) ~> (delivery.event = <<>>)
  /\ \A s \in SubIds \ SlowSubs : (s \in Waiting) ~> (s \notin Waiting)

(***************************************************************************)
(* The socket adapter's properties (checked under SocketSpec).             *)
(***************************************************************************)

\* how many 'message' notifications of an inbox carry the message m
TimesSeen(inbox, m) ==
  Cardinality({ i \in 1..Len(inbox) :
                  inbox[i].event = "message" /\ inbox[i].arg.id = m.id })

\* the registry call before a step was a post accepted from someone else than
\* connection c, and the step is c's accepted join to the same room
SendThenJoin(c) ==
  /\ lastOp.op = "addMessage"
  /\ lastOp.result # <<>>
  /\ lastOp.arg.userId # sockets[c].data.userId
  /\ lastOp'.op = "addUserToRoom"
  /\ lastOp'.result
  /\ lastOp'.roomId = lastOp.roomId
  /\ sockets'[c].data.userId = lastOp'.arg.id

\* the registry call before a step was c's accepted join, and the step is a
\* post to the same room accepted from someone else
JoinThenSend(c) ==
  /\ lastOp.op = "addUserToRoom"
  /\ lastOp.result
  /\ sockets[c].data.userId = lastOp.arg.id
  /\ lastOp'.op = "addMessage"
  /\ lastOp'.result # <<>>
  /\ lastOp'.roomId = lastOp.roomId
  /\ lastOp'.arg.userId # sockets[c].data.userId

\* C5: when a connection's join to a room and another member's sendMessage
\* to that room follow one another, in either order, the joining connection
\* is sent that message exactly once, in the history sent on the join or as
\* a live 'message' notification.
C5_RacingMessageIsSeenOnce ==
  [][\A c \in Conns :
       /\ SendThenJoin(c) => TimesSeen(sockets'[c].inbox, lastOp.result[1]) = 1
       /\ JoinThenSend(c) => TimesSeen(sockets'[c].inbox, lastOp'.result[1]) = 1]_vars

\* the step is the handling of a request of connection c for the event
HandledFor(c, event) ==
  /\ sockets'[c].last.n = sockets[c].last.n + 1
  /\ sockets'[c].last.event = event

\* C13: once a connection's leave or disconnect is handled, no user that
\* handleJoinRoom made for the connection is a member of any room, whatever
\* the connection requested before; and the handling alters no message that
\* a history already holds.
C13_LeaveRemovesTheConnectionsUsers ==
  [][\A c \in Conns :
       (HandledFor(c, "leaveRoom") \/ HandledFor(c, "disconnect"))
         => /\ \A id \in sockets[c].created, r \in DOMAIN rooms' :
                 ~MapHas(rooms'[r].users, id)
            /\ \A r \in DOMAIN rooms :
                 IsPrefix(rooms[r].messages, rooms'[r].messages)]_vars

\* the notifications of the event that connection d is sent by the step
Gained(d, event) ==
  { i \in (Len(sockets[d].inbox) + 1)..Len(sockets'[d].inbox) :
      sockets'[d].inbox[i].event = event }

\* C14: a connection's sendMessage(roomId, content) appends a message to the
\* room and broadcasts it only if the connection has joined the room and not
\* left it since; otherwise no history changes, no connection is sent a
\* 'message', the sender is sent one 'error' and stays connected.
C14_SendRequiresAnEstablishedJoin ==
  [][\A c \in Conns :
       HandledFor(c, "sendMessage")
         => LET roomId == sockets'[c].last.roomId
                established == roomId \in sockets[c].joined
                appended == \E r \in DOMAIN rooms : rooms'[r].messages # rooms[r].messages
                broadcast == \E d \in Conns : Gained(d, "message") # {}
            IN  /\ (appended \/ broadcast) => established
                /\ ~established
                     => /\ rooms' = rooms
                        /\ ~broadcast
                        /\ Len(sockets'[c].inbox) = Len(sockets[c].inbox) + 1
                        /\ Gained(c, "error") # {}
                        /\ sockets'[c].state = "connected"]_vars

\* a connection that was refused a send before it had joined anything made
\* its one join and then had a send accepted
C14_Witness ==
  \E c \in Conns :
    /\ sockets[c].last.event = "sendMessage"
    /\ lastOp.op = "addMessage"
    /\ lastOp.result # <<>>
    /\ lastOp.arg.userId = sockets[c].data.userId
    /\ \E i \in 1..Len(sockets[c].inbox) : sockets[c].inbox[i].event = "error"
    /\ Cardinality(sockets[c].created) = 1

(***************************************************************************)
(* The content sanitizer's properties (checked under SanitizerSpec and     *)
(* HistorySpec).                                                           *)
(***************************************************************************)

\* what a character of the content becomes
Escaped(ch) == IF ch = "<" THEN Lt ELSE IF ch = ">" THEN Gt ELSE <<ch>>

\* the characters i..j of s, each escaped
RECURSIVE EscapedFrom(_, _, _)
EscapedFrom(s, i, j) ==
  IF i > j THEN <<>> ELSE Escaped(s[i]) \o EscapedFrom(s, i + 1, j)

\* s from its first to its last character that is not white space, escaped
Sanitized(s) ==
  LET keep == { i \in 1..Len(s) : s[i] \notin WhiteSpace }
  IN  IF keep = {} THEN <<>>
      ELSE EscapedFrom(s, CHOOSE i \in keep : \A j \in keep : i <= j,
                       CHOOSE i \in keep : \A j \in keep : i >= j)

\* C18: the message the sanitizer puts out equals the message written to it
\* in every field but content, and its content is the written content with
\* every '<' replaced by '&lt;', every '>' by '&gt;' and the white space at
\* both ends removed (nothing is left of content that is all white space).
C18_SanitizerEscapesAndTrims ==
  transform.pushed # <<>>
    => LET in == transform.written[1]
           out == transform.pushed[1]
       IN  /\ out.id = in.id
           /\ out.userId = in.userId
           /\ out.username = in.username
           /\ out.type = in.type
           /\ out.content = Sanitized(in.content)

\* content with white space in front of two angle brackets was sanitized
C18_Witness ==
  /\ transform.pushed # <<>>
  /\ transform.written[1].content = <<" ", "<", ">">>
  /\ transform.pushed[1].content = Lt \o Gt

\* C19: sanitizing what the sanitizer put out changes nothing:
\* sanitize(sanitize(m)) = sanitize(m).
C19_SanitizerIsIdempotent ==
  transform.from = "output" => transform.pushed = transform.written

\* the sanitized form of "<a>", which holds two escapes, was sanitized again
C19_Witness ==
  /\ transform.from = "output"
  /\ transform.written[1].content = Lt \o <<"a">> \o Gt
  /\ transform.pushed # <<>>

\* C20: writing a message of a room's history, or one the message stream
\* carried, to the sanitizer leaves every history as it was, and the posts
\* in the histories keep the raw content they were posted with.
C20_SanitizingLeavesHistoryRaw ==
  [][transform'.applied = transform.applied + 1
       => \A r \in DOMAIN rooms :
            /\ getRoomMessages(CMnext, r, <<>>) = getRoomMessages(CM, r, <<>>)
            /\ \A i \in 1..Len(rooms'[r].messages) :
                 rooms'[r].messages[i].type = TEXT
                   => rooms'[r].messages[i].content \in Contents]_vars

\* a post was sanitized for the second time, taken from the message stream,
\* and what the sanitizer put out differs from the post
C20_Witness ==
  /\ transform.applied = 2
  /\ transform.from = "stream"
  /\ transform.pushed[1].content # transform.written[1].content
  /\ \E r \in DOMAIN rooms :
       \E i \in 1..Len(rooms[r].messages) :
         rooms[r].messages[i] = transform.written[1]

(***************************************************************************)
(* The activity tracker's properties (checked under ActivitySpec).         *)
(***************************************************************************)

\* the user ids that a tracker has recorded and not pruned
Recorded(tr) == { tr.userActivity[i].id : i \in 1..Len(tr.userActivity) }

\* C21: every event the activity tracker emits carries an activeUserCount
\* that is the size of the mapping right after the event's update: the
\* number of distinct user ids recorded and not pruned, the event's user
\* included; an event of a user already recorded does not raise the count.
C21_ActiveUserCountIsMappingSize ==
  [][tracker'.last = "write"
       => LET data == tracker'.pushed[1]
          IN  /\ data.activeUsers = Cardinality(Recorded(tracker) \cup {data.user.id})
              /\ data.activeUsers = Cardinality(Recorded(tracker'))
              /\ data.activeUsers = Len(tracker'.userActivity)
              /\ data.user.id \in Recorded(tracker)
                   => data.activeUsers = Cardinality(Recorded(tracker))]_vars

\* the user recorded first of two wrote again, and the count stayed 2
C21_Witness ==
  /\ tracker.last = "write"
  /\ tracker.pushed[1].activeUsers = 2
  /\ Len(tracker.userActivity) = 2
  /\ tracker.pushed[1].user.id = tracker.userActivity[1].id

\* C22: the prune accessor removes exactly the entries whose lastActivity is
\* more than the inactivity window before now, keeps the others as they
\* were and returns how many remain (0 when every entry is that old);
\* writing an event removes no entry.
C22_PruneRemovesExactlyTheInactive ==
  [][/\ tracker'.last = "getActiveUsers"
        => /\ tracker'.userActivity
                = SelectSeq(tracker.userActivity,
                            LAMBDA e : tracker.now - e.at <= InactivityWindow)
           /\ tracker'.returned = <<Len(tracker'.userActivity)>>
           /\ (\A i \in 1..Len(tracker.userActivity) :
                  tracker.now - tracker.userActivity[i].at > InactivityWindow)
                => tracker'.returned = <<0>>
     /\ tracker'.last \in {"write", "tick"}
        => Recorded(tracker) \subseteq Recorded(tracker')]_vars

\* of two recorded users the accessor removed the one whose last event was
\* six minutes ago and kept the one whose last event was five minutes ago
C22_Witness ==
  /\ tracker.last = "getActiveUsers"
  /\ tracker.returned = <<1>>
  /\ tracker.pushed # <<>>
  /\ tracker.pushed[1].activeUsers = 2
  /\ tracker.now - tracker.userActivity[1].at = InactivityWindow

(***************************************************************************)
(* More of the registry's properties (checked under Spec and HttpSpec).    *)
(***************************************************************************)

\* C23: the room that createRoom(id, name) returns, and the room that
\* getRoom(id) returns right after it, have that id and that name, no
\* members and no history; getRoom of an id that was never created returns
\* absent.
C23_CreatedRoomIsEmpty ==
  [][/\ lastOp'.op = "createRoom"
        => LET empty == [id |-> lastOp'.roomId, name |-> lastOp'.arg,
                         users |-> <<>>, messages |-> <<>>]
           IN  /\ lastOp'.result.room = empty
               /\ getRoom(CMnext, lastOp'.roomId) = <<empty>>
     /\ \A id \in RoomIds :
          (\A i \in 1..Len(roomKeys') : roomKeys'[i] # id)
            => getRoom(CMnext, id) = <<>>]_vars

\* a room was created under the id of a room that somebody had joined
C23_Witness ==
  /\ lastOp.op = "createRoom"
  /\ \E i \in 1..Len(emitted) : emitted[i].payload.roomId = lastOp.roomId
  /\ getRoom(CM, lastOp.roomId) # <<>>
  /\ getRoom(CM, "r1") = <<>>

\* C24: addUserToRoom on a room id that is not in the registry returns false
\* and changes nothing: no room is created, no member or message is added to
\* any room and no event is published.
C24_JoinOfAbsentRoomChangesNothing ==
  [][(lastOp'.op = "addUserToRoom" /\ lastOp'.roomId \notin DOMAIN rooms)
       => /\ lastOp'.result = FALSE
          /\ UNCHANGED <<rooms, roomKeys, roomSubjects, emitted, subs, uuid>>
          /\ seen' = <<>>]_vars

\* a user who is a member of 'general' asked to join a room that was never
\* created
C24_Witness ==
  /\ lastOp.op = "addUserToRoom"
  /\ lastOp.roomId \notin DOMAIN rooms
  /\ lastOp.result = FALSE
  /\ MapHas(rooms["general"].users, lastOp.arg.id)

\* the ids of a sequence of rooms, in its order
IdsOf(list) == [i \in 1..Len(list) |-> list[i].id]

\* C26: getAllRooms() returns every room of the registry exactly once,
\* starting with 'general', in the order in which the returned room objects
\* were created: a createRoom call puts the room it created last and keeps the
\* rooms before it in their order, and no other call changes the order.
C26_ListRoomsInCreationOrder ==
  [][LET before == getAllRooms(CM)
         list == getAllRooms(CMnext)
     IN  /\ \A id \in DOMAIN rooms' :
               Cardinality({ i \in 1..Len(list) : list[i].id = id }) = 1
         /\ Len(list) = Cardinality(DOMAIN rooms')
         /\ list[1].id = "general"
         /\ IF lastOp'.op = "createRoom"
              THEN /\ Last(list) = lastOp'.result.room
                   /\ IdsOf(SubSeq(list, 1, Len(list) - 1))
                        = SelectSeq(IdsOf(before), LAMBDA id : id # lastOp'.roomId)
              ELSE IdsOf(list) = IdsOf(before)]_vars

\* C29: every addUserToRoom, removeUserFromRoom and addMessage on a room,
\* accepted or refused, leaves the members and the history of every other
\* room as they are and publishes no event whose roomId is another room.
C29_OtherRoomsAreUntouched ==
  [][lastOp'.op \in {"addMessage", "addUserToRoom", "removeUserFromRoom"}
       => /\ \A B \in DOMAIN rooms \ {lastOp'.roomId} :
               /\ B \in DOMAIN rooms'
               /\ getRoomUsers(CMnext, B) = getRoomUsers(CM, B)
               /\ getRoomMessages(CMnext, B, <<>>) = getRoomMessages(CM, B, <<>>)
          /\ \A i \in 1..Len(Published) :
               Published[i].payload.roomId = lastOp'.roomId]_vars

\* a member of r1 who is a member of 'general' too posted to r1
C29_Witness ==
  /\ lastOp.op = "addMessage"
  /\ lastOp.roomId = "r1"
  /\ lastOp.result # <<>>
  /\ MapHas(rooms["general"].users, lastOp.arg.userId)
  /\ Last(emitted).payload.roomId = "r1"

\* how many messages of a type a history holds
CountOf(messages, type) ==
  Cardinality({ i \in 1..Len(messages) : messages[i].type = type })

\* C30: in every reachable state and for every room, the number of members
\* is the number of join messages minus the number of leave messages in the
\* room's history.
C30_MembersMatchSystemMessages ==
  \A r \in DOMAIN rooms :
    Len(getRoomUsers(CM, r))
      = CountOf(getRoomMessages(CM, r, <<>>), USER_JOINED)
          - CountOf(getRoomMessages(CM, r, <<>>), USER_LEFT)

\* C34: addUserToRoom for a user id that is already a member of the room
\* returns true, leaves the number of members as it is and leaves exactly one
\* member record for that id, equal to the user value that was passed.
C34_RejoinOverwritesTheRecord ==
  [][(/\ lastOp'.op = "addUserToRoom"
      /\ lastOp'.roomId \in DOMAIN rooms
      /\ IsMember(CM, lastOp'.roomId, lastOp'.arg.id))
       => LET before == getRoomUsers(CM, lastOp'.roomId)
              after == getRoomUsers(CMnext, lastOp'.roomId)
          IN  /\ lastOp'.result = TRUE
              /\ Len(after) = Len(before)
              /\ Cardinality({ i \in 1..Len(after) :
                                 after[i].id = lastOp'.arg.id }) = 1
              /\ \A i \in 1..Len(after) :
                   after[i].id = lastOp'.arg.id => after[i] = lastOp'.arg]_vars

\* a member who joined as "a" joined again as "b", another member being there
C34_Witness ==
  /\ lastOp.op = "addUserToRoom"
  /\ lastOp.result = TRUE
  /\ lastOp.arg.username = <<"b">>
  /\ Len(rooms[lastOp.roomId].users) = 2
  /\ Len(rooms[lastOp.roomId].messages) = 3
  /\ rooms[lastOp.roomId].messages[1].content = <<"a">> \o JoinedSuffix
  /\ rooms[lastOp.roomId].users[1] = lastOp.arg

(***************************************************************************)
(* More of the event bus's properties (checked under BusSpec).             *)
(***************************************************************************)
\* the type of the event an accepted call publishes
EventTypeOf(op) ==
  IF op = "addUserToRoom" THEN ROOM_JOINED
  ELSE IF op = "removeUserFromRoom" THEN ROOM_LEFT
  ELSE MESSAGE_SENT

\* C35: a subscriber of getRoomEventStream(R) receives, at every accepted
\* addUserToRoom, removeUserFromRoom and addMessage on R, exactly one event,
\* the one the call published, of the call's type and with roomId R; at a
\* refused call and at every call on another room it receives nothing.
C35_RoomStreamCarriesTheRoomsEvents ==
  [][\A s \in SubIds :
       (subs[s].active /\ subs[s].kind = "room")
         => IF Accepted(lastOp') /\ lastOp'.roomId = subs[s].roomId
              THEN /\ subs'[s].received
                        = Append(subs[s].received, Last(emitted'))
                   /\ Len(emitted') = Len(emitted) + 1
                   /\ Last(emitted').type = EventTypeOf(lastOp'.op)
                   /\ Last(emitted').payload.roomId = subs[s].roomId
              ELSE subs'[s].received = subs[s].received]_vars

\* a subscriber of r1's events got two of the three events published since
\* it subscribed, the third being an event of 'general'
C35_Witness ==
  \E s \in SubIds :
    /\ subs[s].active
    /\ subs[s].kind = "room"
    /\ subs[s].roomId = "r1"
    /\ Len(subs[s].received) = 2
    /\ Len(emitted) - subs[s].since = 3

(***************************************************************************)
(* The reads' properties (checked under ReadSpec).                         *)
(***************************************************************************)
\* C25: getRoomMessages(roomId, limit?) and getRoomUsers(roomId) on a room id
\* that is not in the registry return an empty sequence, raise no error and
\* leave the registry unchanged: no room is created by the read.
C25_ReadsOfAbsentRoomAreEmpty ==
  [][(/\ lastOp'.op \in {"getRoomMessages", "getRoomUsers"}
      /\ lastOp'.roomId \notin DOMAIN rooms)
       => /\ lastOp'.result = [threw |-> "nothing", value |-> <<>>]
          /\ UNCHANGED <<rooms, roomKeys, roomSubjects, emitted, subs, uuid>>]_vars

\* the history of a room that was never created was read with a limit while
\* 'general' had a member and a history
C25_Witness ==
  /\ lastOp.op = "getRoomMessages"
  /\ lastOp.arg = <<1>>
  /\ lastOp.roomId \notin DOMAIN rooms
  /\ rooms["general"].users # <<>>
  /\ Len(rooms["general"].messages) = 2

(***************************************************************************)
(* The HTTP adapter's properties (checked under HttpSpec).                 *)
(***************************************************************************)
\* C27: POST /api/rooms with an id that is in the registry is answered with
\* 409 'Room already exists' and leaves the room's members and history as
\* they are; a request without id or without name is answered with 400 and
\* creates no room; only a request with a new id and a name creates a room,
\* and is answered with 201.
C27_HttpCreateRoomGuards ==
  [][httpRes'.n # httpRes.n
       => LET id == httpRes'.req[1]
              name == httpRes'.req[2]
          IN  IF id = Undefined \/ name = Undefined
                THEN /\ httpRes'.status = 400
                     /\ rooms' = rooms
              ELSE IF id \in DOMAIN rooms
                THEN /\ httpRes'.status = 409
                     /\ httpRes'.body = <<"Room already exists">>
                     /\ rooms' = rooms
              ELSE /\ httpRes'.status = 201
                   /\ DOMAIN rooms' = DOMAIN rooms \cup {id}
                   /\ rooms'[id].name = name
                   /\ \A r \in DOMAIN rooms : rooms'[r] = rooms[r]]_vars

\* a request to create 'general' again was refused while the room had a
\* member, after a request had created r1
C27_Witness ==
  /\ httpRes.status = 409
  /\ httpRes.req[1] = "general"
  /\ rooms["general"].users # <<>>
  /\ rooms["general"].messages # <<>>
  /\ "r1" \in DOMAIN rooms

(***************************************************************************)
(* The history stream's properties (checked under ReaderSpec).             *)
(***************************************************************************)
\* C28: a MessageHistoryStream hands its consumer the messages of the array
\* it was constructed over, each once and in index order, and then the end:
\* what was handed over is always a prefix of the array, it is the whole
\* array (nothing, for an empty array) once the end was told, no message
\* follows the end, and the end is told eventually.
C28_HistoryStreamEmitsAllThenEnds ==
  /\ [](reader.state # "none"
          => /\ IsPrefix(reader.data, reader.messages)
             /\ reader.ended => reader.data = reader.messages)
  /\ [][reader.ended => (reader'.ended /\ reader'.data = reader.data)]_vars
  /\ (reader.state = "flowing") ~> reader.ended

\* a stream over three messages, the first of them twice, told the end
C28_Witness ==
  /\ reader.ended
  /\ Len(reader.data) = 3
  /\ reader.data[1] = reader.data[2]
  /\ reader.data[1] # reader.data[3]

(***************************************************************************)
(* More of the socket adapter's properties (checked under SocketSpec).     *)
(***************************************************************************)
\* the notifications the step sends to connection d
SentTo(d) ==
  SubSeq(sockets'[d].inbox, Len(sockets[d].inbox) + 1, Len(sockets'[d].inbox))

\* C33: a 'userLeft' notification is sent only by a request whose
\* removeUserFromRoom for that user and room succeeded, a 'userJoined'
\* notification only by one whose addUserToRoom succeeded, and the request
\* appended exactly one message, the leave or the join message, to that
\* room's history.
C33_NotificationsFollowTheRegistry ==
  [][\A d \in Conns :
       \A i \in 1..Len(SentTo(d)) :
         LET note == SentTo(d)[i]
         IN  note.event \in {"userLeft", "userJoined"}
               => /\ lastOp'.op = IF note.event = "userLeft"
                                    THEN "removeUserFromRoom"
                                    ELSE "addUserToRoom"
                  /\ lastOp'.result = TRUE
                  /\ lastOp'.roomId \in sockets[d].rooms
                  /\ note.arg.id = IF note.event = "userLeft"
                                     THEN lastOp'.arg ELSE lastOp'.arg.id
                  /\ LET before == getRoomMessages(CM, lastOp'.roomId, <<>>)
                         after == getRoomMessages(CMnext, lastOp'.roomId, <<>>)
                     IN  /\ Len(after) = Len(before) + 1
                         /\ SubSeq(after, 1, Len(before)) = before
                         /\ Last(after).type = IF note.event = "userLeft"
                                                 THEN USER_LEFT ELSE USER_JOINED]_vars

\* C32: in every reachable state a connection is in the transport room R if
\* and only if a user created for the connection is a member of R in the
\* registry.
C32_TransportRoomsMatchMembership ==
  \A c \in Conns :
    \A R \in RoomIds :
      R \in sockets[c].rooms
        <=> \E userId \in sockets[c].created : IsMember(CM, R, userId)

(***************************************************************************)
(* The calls' order under re-entrant callbacks (checked under              *)
(* ReentrantSpec).                                                         *)
(***************************************************************************)
\* the ids of the messages of a sequence, in its order
MessageIds(messages) == [i \in 1..Len(messages) |-> messages[i].id]

\* the elements of a sequence
Range(s) == { s[i] : i \in 1..Len(s) }

\* C31: for every room, the events of the room were published on the event
\* stream in the order in which their messages were appended to the room's
\* history, whichever callback called the registry while a call was in
\* progress.
C31_EventsFollowHistoryOrder ==
  \A r \in DOMAIN rooms :
    LET history == MessageIds(getRoomMessages(CM, r, <<>>))
    IN  SelectSeq(stack.published, LAMBDA id : id \in Range(history))
          = SelectSeq(history, LAMBDA id : id \in Range(stack.published))

====
